---- MODULE Spec2Model ----
(***************************************************************************)
(* Model of the ConvCharm channel-conditional image codec                  *)
(* (src/conv-charm.py): construction, the fit / train_step lifecycle, the  *)
(* forward pass (call) and the compress / decompress slice loops.          *)
(*                                                                         *)
(* Tensors are abstracted as follows.  A latent slice is one number in     *)
(* half units (the value v stands for v/2), so that rounding is a real     *)
(* operation.  The hyper-synthesis output is a sequence with one entry per *)
(* channel.  The neural sub-networks are opaque deterministic functions of *)
(* their input tensor and of the learned parameters `params`.  The range   *)
(* coders are bijections between symbols and code words that depend on the *)
(* coding table (and, for the indexed model, on the scale index).          *)
(***************************************************************************)
EXTENDS Integers, Sequences, FiniteSets, TLC

\* ---------------------------------------------------------------- bounds
MaxSlices == 3
MaxDepth == 6
MaxSupport == 1
MaxTrainSteps == 1
MaxScales == 3
MaxLogScale == 3

\* ------------------------------------------------------ program constants
UInt8Max == 255
Stride == 2

\* ------------------------------------------------------- basic operators
Min(a, b) == IF a < b THEN a ELSE b

Max(a, b) == IF a > b THEN a ELSE b

RECURSIVE SumSeq(_)
SumSeq(s) == IF s = <<>> THEN 0 ELSE s[1] + SumSeq(Tail(s))

RECURSIVE WeightedSum(_, _)
\* position-sensitive digest of a channel-concatenated tensor
WeightedSum(s, pos) ==
  IF s = <<>> THEN 0 ELSE pos * (s[1] + 1) + WeightedSum(Tail(s), pos + 1)

\* tf.round on a value in half units: round half to even; result in half units
Round(h) ==
  IF h % 2 = 0 THEN h
  ELSE LET m == (h - 1) \div 2
       IN IF m % 2 = 0 THEN 2 * m ELSE 2 * (m + 1)

\* tf.saturate_cast(., tf.uint8) on an integer
SaturateCast(v) == IF v < 0 THEN 0 ELSE IF v > UInt8Max THEN UInt8Max ELSE v

\* Python slice seq[start:end] with 0 <= start, end clipped to the length
PySlice(s, start, end) == SubSeq(s, start + 1, Min(end, Len(s)))

\* Python slice seq[:k] for k >= 0
PyPrefix(s, k) == SubSeq(s, 1, Min(k, Len(s)))

\* Python slice seq[-k:] for k >= 0 (the most recent k entries)
PySuffix(s, k) == SubSeq(s, Max(0, Len(s) - k) + 1, Len(s))

\* list(range(n))
Range(n) == [j \in 1..n |-> j - 1]

CeilDiv(a, b) == (a + b - 1) \div b

\* ------------------------------------------------------------ scale mapping
\* Scales are positive numbers written as powers of two, a scale_fn value
\* 2^q is kept as its exponent q, and logarithms are taken to base 2 (a
\* common factor of offset and factor).  Exponents are fractions <<n, d>>
\* with d >= 0; d = 0 is the outcome of a float division by zero.
RECURSIVE Log2(_)
Log2(s) == IF s <= 1 THEN 0 ELSE 1 + Log2(s \div 2)

RECURSIVE Pow2(_)
Pow2(e) == IF e <= 0 THEN 1 ELSE 2 * Pow2(e - 1)

\* mutant: the interpolation divides by num_scales
ScaleFactorPerScale(smin, smax, n) == <<Log2(smax) - Log2(smin), n>>

\* factor = (log(scale_max) - log(scale_min)) / (num_scales - 1.)
ScaleFactor(smin, smax, n) == <<Log2(smax) - Log2(smin), n - 1>>

\* offset = log(scale_min)
ScaleOffset(smin) == Log2(smin)

\* a float that is not a positive finite number
NonFinite(k) == [kind |-> k, q |-> <<0, 0>>]

\* scale_fn(i) = exp(offset + factor * i): the finite value 2^q, or nan, inf
\* or zero when factor is not finite (0 * inf is nan, exp(-inf) is 0)
ScaleFn(off, fac, i) ==
  IF fac[2] # 0
  THEN [kind |-> "finite", q |-> <<off * fac[2] + fac[1] * i, fac[2]>>]
  ELSE IF fac[1] = 0 \/ i = 0 THEN NonFinite("nan")
  ELSE IF fac[1] > 0 THEN NonFinite("inf")
  ELSE NonFinite("zero")

\* ------------------------------------------------------ external networks
\* analysis_transform followed by hyper_analysis_transform: z from y
HyperAnalysis(ys, p) == (SumSeq(ys) + p) % 3

\* hyper_synthesis_mean_scale_transform: latent_depth output channels
HyperSynthesis(zh, p, depth) == [c \in 1..depth |-> ((zh \div 2) + c + p) % 3]

\* tf.split(t, 2, axis=-1)
Split2(t) ==
  <<SubSeq(t, 1, Len(t) \div 2), SubSeq(t, Len(t) \div 2 + 1, Len(t))>>

\* cc_mean_transforms[i]: the location predictor of slice i (half units)
MeanTransform(i, input, p) == (WeightedSum(input, 1) + i + p) % 2

\* cc_scale_transforms[i]: the scale-index predictor of slice i
ScaleTransform(i, input, p) == (WeightedSum(input, 1) + 2 * i + p + 1) % 3

\* synthesis_transform: an image of Stride * y_shape pixels, half units,
\* with values below 0 and above 255
SynthesisTransform(yh, p, ysh) ==
  [r \in 1..(ysh[1] * Stride) |->
    [c \in 1..(ysh[2] * Stride) |->
      173 * (SumSeq(yh) + p + 2 * r + c) - 700]]

\* shape of the analysis output for an image of shape xs
AnalysisShape(xs) == <<CeilDiv(xs[1], Stride), CeilDiv(xs[2], Stride)>>

\* ---------------------------------------------------------- entropy models
NoEM == -1

\* number of code words of the hyperprior coder
ZAlphabet == 2

\* the values a latent slice of an input image takes: 0, 0.5 and 1
LatentValues == {0, 1, 2}

\* number of code words of the slice coder: one for each symbol
\* round(y - mu) that a latent of an input image produces
Alphabet == 2

\* ContinuousBatchedEntropyModel.quantize
EmZQuantize(z) == Round(z)

\* ContinuousBatchedEntropyModel.compress with the frozen table `tables`
EmZCompress(z, tables) == ((Round(z) \div 2) + tables) % ZAlphabet

\* ContinuousBatchedEntropyModel.decompress
EmZDecompress(zstr, tables) == 2 * ((zstr - tables) % ZAlphabet)

\* LocationScaleIndexedEntropyModel.quantize(y, loc=mu)
EmYQuantize(y, mu) == Round(y - mu) + mu

\* LocationScaleIndexedEntropyModel.compress(y, sigma, mu)
EmYCompress(y, sigma, mu) == ((Round(y - mu) \div 2) + sigma) % Alphabet

\* LocationScaleIndexedEntropyModel.decompress(string, sigma, mu)
EmYDecompress(str, sigma, mu) == 2 * ((str - sigma) % Alphabet) + mu

\* rate estimate of one slice (positive, grows with the residual)
EmYBits(y, sigma, mu) == (Round(y - mu) \div 2) + sigma + 1

\* rate estimate of the hyperprior
EmZBits(z, p) == (Round(z) \div 2) + p + 1

\* ------------------------------------------------------------ slice engine
\* mutant: the most recent k decoded slices, y_hat_slices[-k:]
SupportSlicesRecent(yhs, k) == IF k < 0 THEN yhs ELSE PySuffix(yhs, k)

\* mutant: the bound is ignored
SupportSlicesAll(yhs, k) == yhs

\* mutant: a bound of 0 is taken for the sentinel
SupportSlicesZeroUnbounded(yhs, k) == IF k <= 0 THEN yhs ELSE PyPrefix(yhs, k)

\* mutant: no sentinel, y_hat_slices[:max_support_slices] for every bound
SupportSlicesNoSentinel(yhs, k) ==
  IF k < 0 THEN SubSeq(yhs, 1, Max(0, Len(yhs) + k)) ELSE PyPrefix(yhs, k)

\* support_slices = y_hat_slices if max_support_slices < 0
\*                  else y_hat_slices[:max_support_slices]
SupportSlices(yhs, k) == IF k < 0 THEN yhs ELSE PyPrefix(yhs, k)

\* one iteration of the slice loop up to the prediction of mu and sigma;
\* `support` is the list of slice indices the support tensors come from
Predict(i, lm, ls, yhs, k, ssz, p) ==
  LET support_slices == SupportSlices(yhs, k)
      start_index == i * ssz
      end_index == i * ssz + ssz
      latent_means_slice == PySlice(lm, start_index, end_index)
      latent_scales_slice == PySlice(ls, start_index, end_index)
      mean_support == latent_means_slice \o support_slices
      scale_support == latent_scales_slice \o support_slices
  IN [index |-> i,
      support |-> SupportSlices(Range(Len(yhs)), k),
      latent_means_slice |-> latent_means_slice,
      latent_scales_slice |-> latent_scales_slice,
      mean_channels |-> Len(mean_support),
      scale_channels |-> Len(scale_support),
      mu |-> MeanTransform(i, mean_support, p),
      sigma |-> ScaleTransform(i, scale_support, p)]

\* the trace entry of one finished iteration: the prediction, the decoded
\* slice, the slice string emitted or consumed and its position among the
\* slice strings, and the rate estimate
Done(pr, yhat, pos, str, bits) ==
  [index |-> pr.index, support |-> pr.support,
   latent_means_slice |-> pr.latent_means_slice,
   latent_scales_slice |-> pr.latent_scales_slice,
   mean_channels |-> pr.mean_channels, scale_channels |-> pr.scale_channels,
   mu |-> pr.mu, sigma |-> pr.sigma, y_hat_slice |-> yhat, string_pos |-> pos,
   string |-> str, bits |-> bits]

\* body of the slice loop of call for slice i
CallStep(i, ys, yhs, lm, ls, k, ssz, p) ==
  LET pr == Predict(i, lm, ls, yhs, k, ssz, p)
      y_slice == ys[i + 1]
  IN Done(pr, EmYQuantize(y_slice, pr.mu), 0, 0,
          EmYBits(y_slice, pr.sigma, pr.mu))

\* mutant: later slices are conditioned on the unquantized y_slice
CompressStepUnquantized(i, ys, yhs, lm, ls, k, ssz, p) ==
  LET pr == Predict(i, lm, ls, yhs, k, ssz, p)
      y_slice == ys[i + 1]
      slice_string == EmYCompress(y_slice, pr.sigma, pr.mu)
  IN Done(pr, y_slice, i + 1, slice_string, 0)

\* body of the slice loop of compress for slice i
CompressStep(i, ys, yhs, lm, ls, k, ssz, p) ==
  LET pr == Predict(i, lm, ls, yhs, k, ssz, p)
      y_slice == ys[i + 1]
      slice_string == EmYCompress(y_slice, pr.sigma, pr.mu)
  IN Done(pr, EmYDecompress(slice_string, pr.sigma, pr.mu), i + 1,
          slice_string, 0)

\* mutant: the decoder of slice i also reads the string of the next slice
DecompressStepLookahead(i, strs, yhs, lm, ls, k, ssz, p) ==
  LET pr == Predict(i, lm, ls, yhs, k, ssz, p)
      y_string == strs[i + 1]
      next_string == strs[Min(i + 2, Len(strs))]
  IN Done(pr, EmYDecompress(y_string + next_string, pr.sigma, pr.mu), i + 1,
          y_string, 0)

\* mutant: the decoder conditions on all decoded slices, whatever the bound
DecompressStepUnbounded(i, strs, yhs, lm, ls, k, ssz, p) ==
  LET pr == Predict(i, lm, ls, yhs, -1, ssz, p)
      y_string == strs[i + 1]
  IN Done(pr, EmYDecompress(y_string, pr.sigma, pr.mu), i + 1, y_string, 0)

\* body of the slice loop of decompress for slice i
DecompressStep(i, strs, yhs, lm, ls, k, ssz, p) ==
  LET pr == Predict(i, lm, ls, yhs, k, ssz, p)
      y_string == strs[i + 1]
  IN Done(pr, EmYDecompress(y_string, pr.sigma, pr.mu), i + 1, y_string, 0)

\* mutant: a plain cast that wraps around instead of saturating
CropCastWrap(xh, xs) ==
  [r \in 1..Min(xs[1], Len(xh)) |->
    [c \in 1..Min(xs[2], Len(xh[r])) |->
      (Round(xh[r][c]) \div 2) % (UInt8Max + 1)]]

\* x_hat[0, :x_shape[0], :x_shape[1], :] rounded and cast to uint8
CropCast(xh, xs) ==
  [r \in 1..Min(xs[1], Len(xh)) |->
    [c \in 1..Min(xs[2], Len(xh[r])) |->
      SaturateCast(Round(xh[r][c]) \div 2)]]

\* ------------------------------------------------------------ return values
NoRet == [kind |-> "none", val |-> <<>>]

Raised(e) == [kind |-> e, val |-> <<>>]

Returned(op, v) == [kind |-> op, val |-> v]

Errors == {"AttributeError", "ArityError"}

\* --------------------------------------------------------------- the state
VARIABLES
  latent_depth,        \* constructor argument
  num_slices,          \* constructor argument / self.num_slices
  max_support_slices,  \* constructor argument / self.max_support_slices
  lmbda,               \* self.lmbda
  slice_size,          \* self.slice_size
  status,              \* "unbuilt", "ready", "config_error", "build_error"
  num_scales,          \* constructor argument / self.num_scales
  scale_min,           \* constructor argument
  scale_max,           \* constructor argument
  offset, factor,      \* captured by self.scale_fn
  scale_table,         \* history: the values scale_fn returned, by index
  params,              \* version of the trainable variables
  em_z,                \* self.em_z: NoEM or the params its tables were built from
  em_y,                \* self.em_y: NoEM or 0
  in_fit,              \* inside super().fit
  frozen,              \* history: a fit has completed (the freezing transition)
  pc,                  \* "idle", "call", "compress", "decompress", "returned"
  caller,              \* who runs the forward pass: "train_step" / "test_step"
  slice_index,         \* loop variable of the slice loop
  x_shape, y_shape, z_shape,
  y_slices,            \* tf.split(y, num_slices): the latent of the input image
  z_string, z_hat,
  latent_means, latent_scales,
  y_strings,           \* compress: strings emitted; decompress: *y_strings
  y_hat_slices,
  y_bits_arr,          \* call: per-slice rate estimates
  trace,               \* history: one entry per finished loop iteration
  ret,                 \* value returned / error raised by the last operation
  comp                 \* history: <<>> or <<the last finished compress run>>

vars == <<latent_depth, num_slices, max_support_slices, lmbda, slice_size,
          status, num_scales, scale_min, scale_max, offset, factor,
          scale_table, params, em_z, em_y, in_fit, frozen, pc, caller, slice_index,
          x_shape, y_shape, z_shape, y_slices, z_string, z_hat,
          latent_means, latent_scales, y_strings, y_hat_slices, y_bits_arr,
          trace, ret, comp>>

scaling == <<num_scales, scale_min, scale_max, offset, factor, scale_table>>

config == <<latent_depth, num_slices, max_support_slices, lmbda, slice_size,
            status, scaling>>

lifecycle == <<params, em_z, em_y, in_fit, frozen>>

locals == <<caller, slice_index, x_shape, y_shape, z_shape, y_slices,
            z_string, z_hat, latent_means, latent_scales, y_strings,
            y_hat_slices, y_bits_arr, trace>>

\* image shapes: up to one latent cell, so that rows, or rows and columns,
\* or nothing is cropped
Shapes == {xs \in (1..Stride) \X (1..Stride) : xs[1] <= xs[2]}

Latents(n) == [1..n -> LatentValues]

Strings(n) == [1..n -> 0..(Alphabet - 1)]

LambdaArg == 2

Init ==
  /\ latent_depth \in 1..MaxDepth
  /\ num_slices \in 1..MaxSlices
  /\ max_support_slices \in -1..MaxSupport
  /\ lmbda = LambdaArg
  /\ slice_size = 0
  /\ status = "unbuilt"
  /\ num_scales = MaxScales
  /\ scale_min = 1
  /\ scale_max = Pow2(MaxLogScale)
  /\ offset = 0
  /\ factor = <<0, 1>>
  /\ scale_table = <<>>
  /\ params = 0
  /\ em_z = NoEM
  /\ em_y = NoEM
  /\ in_fit = FALSE
  /\ frozen = FALSE
  /\ pc = "idle"
  /\ caller = "none"
  /\ slice_index = 0
  /\ x_shape = <<0, 0>>
  /\ y_shape = <<0, 0>>
  /\ z_shape = <<0, 0>>
  /\ y_slices = <<>>
  /\ z_string = 0
  /\ z_hat = 0
  /\ latent_means = <<>>
  /\ latent_scales = <<>>
  /\ y_strings = <<>>
  /\ y_hat_slices = <<>>
  /\ y_bits_arr = <<>>
  /\ trace = <<>>
  /\ ret = NoRet
  /\ comp = <<>>

\* ------------------------------------------------------------ construction
\* mutant: the divisibility check is missing
SliceDepthOkAlways(depth, n) == TRUE

\* SliceTransform.__init__: the divisibility check
SliceDepthOk(depth, n) == (depth \div n) * n = depth

\* some slice predictor is built on an input without channels: the hyper
\* context slice is empty and so is the support
ZeroChannelInput(depth, n, k) ==
  LET ctx == Split2(Range(depth))[1]
      ssz == depth \div n
  IN \E i \in 0..(n - 1) :
       PySlice(ctx, i * ssz, i * ssz + ssz) \o SupportSlices(Range(i), k) = <<>>

\* what self.build ends with: the tf.split of an odd channel count fails,
\* and a convolution of a tensor without channels is rejected or not,
\* depending on the library version
BuildOutcomes(depth, n, k) ==
  IF depth % 2 # 0 THEN {"build_error"}
  ELSE IF ZeroChannelInput(depth, n, k) THEN {"build_error", "ready"}
  ELSE {"ready"}

\* mutant: the constructor already builds the range coding tables
ConstructWithTables ==
  /\ status = "unbuilt"
  /\ slice_size' = latent_depth \div num_slices
  /\ status' \in IF ~SliceDepthOk(latent_depth, num_slices)
                THEN {"config_error"}
                ELSE BuildOutcomes(latent_depth, num_slices,
                                   max_support_slices)
  /\ offset' = ScaleOffset(scale_min)
  /\ factor' = ScaleFactor(scale_min, scale_max, num_scales)
  /\ em_z' = params
  /\ em_y' = 0
  /\ UNCHANGED <<latent_depth, num_slices, max_support_slices, lmbda,
                 num_scales, scale_min, scale_max, scale_table,
                 params, in_fit, frozen, pc, locals, ret, comp>>

\* ConvCharm.__init__: slice_size and the scale mapping are set first, the
\* slice transforms raise the configuration error, and self.build traces
\* call, whose tf.split(latent_means_scales, 2) needs an even channel count
Construct ==
  /\ status = "unbuilt"
  /\ slice_size' = latent_depth \div num_slices
  /\ status' \in IF ~SliceDepthOk(latent_depth, num_slices)
                THEN {"config_error"}
                ELSE BuildOutcomes(latent_depth, num_slices,
                                   max_support_slices)
  /\ offset' = ScaleOffset(scale_min)
  /\ factor' = ScaleFactor(scale_min, scale_max, num_scales)
  /\ UNCHANGED <<latent_depth, num_slices, max_support_slices, lmbda,
                 num_scales, scale_min, scale_max, scale_table,
                 lifecycle, pc, locals, ret, comp>>

\* --------------------------------------------------------------- lifecycle
\* fit: entering super().fit
FitBegin ==
  /\ status = "ready" /\ pc \in {"idle", "returned"} /\ ~in_fit
  /\ in_fit' = TRUE
  /\ UNCHANGED <<config, params, em_z, em_y, frozen, pc, locals, ret, comp>>

\* fit: super().fit returned; fix the range coding tables
FitEnd ==
  /\ status = "ready" /\ pc \in {"idle", "returned"} /\ in_fit
  /\ in_fit' = FALSE
  /\ em_z' = params
  /\ em_y' = 0
  /\ frozen' = TRUE
  /\ UNCHANGED <<config, params, pc, locals, ret, comp>>

\* fit: super().fit raised; the assignments after it are skipped
FitAbort ==
  /\ status = "ready" /\ pc \in {"idle", "returned"} /\ in_fit
  /\ in_fit' = FALSE
  /\ UNCHANGED <<config, params, em_z, em_y, frozen, pc, locals, ret, comp>>

\* ------------------------------------------------------------ forward pass
\* mutant: the entropy model of the hyperprior is stored in self.em_z
CallBeginStoresEmZ(who, xs, ys) ==
  /\ status = "ready" /\ pc = "idle"
  /\ who = "train_step" => params < MaxTrainSteps
  /\ LET z == HyperAnalysis(ys, params)
         zh == EmZQuantize(z)
         lms == Split2(HyperSynthesis(zh, params, latent_depth))
     IN /\ pc' = "call"
        /\ caller' = who
        /\ slice_index' = 0
        /\ x_shape' = xs
        /\ y_shape' = AnalysisShape(xs)
        /\ z_shape' = AnalysisShape(AnalysisShape(xs))
        /\ y_slices' = ys
        /\ z_string' = 0
        /\ z_hat' = zh
        /\ latent_means' = lms[1]
        /\ latent_scales' = lms[2]
        /\ y_strings' = <<>>
        /\ y_hat_slices' = <<>>
        /\ y_bits_arr' = <<>>
        /\ trace' = <<>>
        /\ ret' = NoRet
  /\ comp' = <<>>
  /\ em_z' = params
  /\ UNCHANGED <<config, params, em_y, in_fit, frozen>>

\* call(x, training), entered from train_step or test_step: everything up
\* to the slice loop.  em_z and em_y are locals built with compression=False
CallBegin(who, xs, ys) ==
  /\ status = "ready" /\ pc = "idle"
  /\ who = "train_step" => params < MaxTrainSteps
  /\ LET z == HyperAnalysis(ys, params)
         zh == EmZQuantize(z)
         lms == Split2(HyperSynthesis(zh, params, latent_depth))
     IN /\ pc' = "call"
        /\ caller' = who
        /\ slice_index' = 0
        /\ x_shape' = xs
        /\ y_shape' = AnalysisShape(xs)
        /\ z_shape' = AnalysisShape(AnalysisShape(xs))
        /\ y_slices' = ys
        /\ z_string' = 0
        /\ z_hat' = zh
        /\ latent_means' = lms[1]
        /\ latent_scales' = lms[2]
        /\ y_strings' = <<>>
        /\ y_hat_slices' = <<>>
        /\ y_bits_arr' = <<>>
        /\ trace' = <<>>
        /\ ret' = NoRet
  /\ comp' = <<>>
  /\ UNCHANGED <<config, lifecycle>>

\* one iteration of the slice loop of call
CallSlice ==
  /\ pc = "call" /\ slice_index < num_slices
  /\ LET e == CallStep(slice_index, y_slices, y_hat_slices, latent_means,
                       latent_scales, max_support_slices, slice_size, params)
     IN /\ y_bits_arr' = Append(y_bits_arr, e.bits)
        /\ y_hat_slices' = Append(y_hat_slices, e.y_hat_slice)
        /\ trace' = Append(trace, e)
  /\ slice_index' = slice_index + 1
  /\ UNCHANGED <<config, lifecycle, pc, caller, x_shape, y_shape, z_shape,
                 y_slices, z_string, z_hat, latent_means, latent_scales,
                 y_strings, ret, comp>>

\* distortion between the input (represented by its latent) and x_hat
Distortion(ys, yh) ==
  SumSeq([j \in 1..Len(ys) |-> (ys[j] - yh[j]) * (ys[j] - yh[j])])

\* mutant: total_bits = tf.add_n(y_bits_arr), the hyperprior bits are left out
CallReturnNoHyperBits ==
  /\ pc = "call" /\ slice_index = num_slices
  /\ LET num_pixels == x_shape[1] * x_shape[2]
         total_bits == SumSeq(y_bits_arr)
         mse == Distortion(y_slices, y_hat_slices)
         loss == mse + lmbda * total_bits
     IN ret' = Returned("call", <<loss, <<total_bits, num_pixels>>, mse>>)
  /\ params' = IF caller = "train_step" THEN params + 1 ELSE params
  /\ pc' = "returned"
  /\ UNCHANGED <<config, em_z, em_y, in_fit, frozen, locals, comp>>

\* the end of call, and of the train_step / test_step that ran it:
\* returns (loss, total_bpp, mse).  y_bpps[j] is y_bits_arr[j] / num_pixels
\* and z_bpp is z_bits / num_pixels, so total_bpp, the sum of these
\* quotients, is kept as the pair <<sum of the bits, num_pixels>>;
\* train_step applies the gradients
CallReturn ==
  /\ pc = "call" /\ slice_index = num_slices
  /\ LET num_pixels == x_shape[1] * x_shape[2]
         z_bits == EmZBits(HyperAnalysis(y_slices, params), params)
         total_bits == SumSeq(y_bits_arr) + z_bits
         mse == Distortion(y_slices, y_hat_slices)
         loss == mse + lmbda * total_bits
     IN ret' = Returned("call", <<loss, <<total_bits, num_pixels>>, mse>>)
  /\ params' = IF caller = "train_step" THEN params + 1 ELSE params
  /\ pc' = "returned"
  /\ UNCHANGED <<config, em_z, em_y, in_fit, frozen, locals, comp>>

\* ----------------------------------------------------------------- compress
\* compress(x) up to the slice loop; self.em_z is looked up first
CompressBegin(xs, ys) ==
  /\ status = "ready" /\ pc = "idle"
  /\ comp' = <<>>
  /\ x_shape' = xs
  /\ y_shape' = AnalysisShape(xs)
  /\ z_shape' = AnalysisShape(AnalysisShape(xs))
  /\ y_slices' = ys
  /\ slice_index' = 0
  /\ y_strings' = <<>>
  /\ y_hat_slices' = <<>>
  /\ y_bits_arr' = <<>>
  /\ trace' = <<>>
  /\ caller' = "none"
  /\ IF em_z = NoEM
     THEN /\ ret' = Raised("AttributeError")
          /\ pc' = "returned"
          /\ z_string' = 0
          /\ z_hat' = 0
          /\ latent_means' = <<>>
          /\ latent_scales' = <<>>
     ELSE LET z == HyperAnalysis(ys, params)
              zs == EmZCompress(z, em_z)
              zh == EmZDecompress(zs, em_z)
              lms == Split2(HyperSynthesis(zh, params, latent_depth))
          IN /\ ret' = NoRet
             /\ pc' = "compress"
             /\ z_string' = zs
             /\ z_hat' = zh
             /\ latent_means' = lms[1]
             /\ latent_scales' = lms[2]
  /\ UNCHANGED <<config, lifecycle>>

\* mutant: the decoded slice is put in front of the list
CompressSlicePrepend ==
  /\ pc = "compress" /\ slice_index < num_slices
  /\ LET e == CompressStep(slice_index, y_slices, y_hat_slices, latent_means,
                           latent_scales, max_support_slices, slice_size,
                           params)
     IN /\ y_strings' = Append(y_strings, e.string)
        /\ y_hat_slices' = <<e.y_hat_slice>> \o y_hat_slices
        /\ trace' = Append(trace, e)
  /\ slice_index' = slice_index + 1
  /\ UNCHANGED <<config, lifecycle, pc, caller, x_shape, y_shape, z_shape,
                 y_slices, z_string, z_hat, latent_means, latent_scales,
                 y_bits_arr, ret, comp>>

\* one iteration of the slice loop of compress
CompressSlice ==
  /\ pc = "compress" /\ slice_index < num_slices
  /\ LET e == CompressStep(slice_index, y_slices, y_hat_slices, latent_means,
                           latent_scales, max_support_slices, slice_size,
                           params)
     IN /\ y_strings' = Append(y_strings, e.string)
        /\ y_hat_slices' = Append(y_hat_slices, e.y_hat_slice)
        /\ trace' = Append(trace, e)
  /\ slice_index' = slice_index + 1
  /\ UNCHANGED <<config, lifecycle, pc, caller, x_shape, y_shape, z_shape,
                 y_slices, z_string, z_hat, latent_means, latent_scales,
                 y_bits_arr, ret, comp>>

\* mutant: the hyperprior string is packed after the slice strings
CompressTupleZLast(xs, ysh, zsh, zs, strs) == <<xs, ysh, zsh>> \o strs \o <<zs>>

\* the tuple compress returns
CompressTuple(xs, ysh, zsh, zs, strs) == <<xs, ysh, zsh, zs>> \o strs

\* return (x_shape, y_shape, z_shape, z_string) + tuple(y_strings)
CompressReturn ==
  /\ pc = "compress" /\ slice_index = num_slices
  /\ LET t == CompressTuple(x_shape, y_shape, z_shape, z_string, y_strings)
     IN /\ ret' = Returned("compress", t)
        /\ comp' = <<[params |-> params, tables |-> em_z, z_hat |-> z_hat,
                      trace |-> trace, ret |-> t]>>
  /\ pc' = "returned"
  /\ UNCHANGED <<config, lifecycle, locals>>

\* --------------------------------------------------------------- decompress
\* the positional arguments after z_string: *y_strings
StarArgs(a) == SubSeq(a, 5, Len(a))

\* mutant: the number of slice strings is not checked
ArityOkAlways(strs, n) == TRUE

\* assert len(y_strings) == self.num_slices, and the compiled signature of
\* num_slices + 1 strings
ArityOk(strs, n) == Len(strs) = n

\* decompress(x_shape, y_shape, z_shape, z_string, *y_strings) up to the
\* slice loop: the compiled signature and the assert fix the arity, then
\* self.em_z is looked up
DecompressBegin(a) ==
  /\ status = "ready"
  /\ \/ pc = "idle" /\ comp' = <<>>
     \/ pc = "returned" /\ ret.kind = "compress" /\ a = ret.val /\ comp' = comp
  /\ slice_index' = 0
  /\ y_slices' = <<>>
  /\ y_hat_slices' = <<>>
  /\ y_bits_arr' = <<>>
  /\ trace' = <<>>
  /\ caller' = "none"
  /\ x_shape' = a[1]
  /\ y_shape' = a[2]
  /\ z_shape' = a[3]
  /\ z_string' = a[4]
  /\ y_strings' = StarArgs(a)
  /\ IF ~ArityOk(StarArgs(a), num_slices)
     THEN /\ ret' = Raised("ArityError")
          /\ pc' = "returned"
          /\ z_hat' = 0
          /\ latent_means' = <<>>
          /\ latent_scales' = <<>>
     ELSE IF em_z = NoEM
     THEN /\ ret' = Raised("AttributeError")
          /\ pc' = "returned"
          /\ z_hat' = 0
          /\ latent_means' = <<>>
          /\ latent_scales' = <<>>
     ELSE LET zh == EmZDecompress(a[4], em_z)
              lms == Split2(HyperSynthesis(zh, params, latent_depth))
          IN /\ ret' = NoRet
             /\ pc' = "decompress"
             /\ z_hat' = zh
             /\ latent_means' = lms[1]
             /\ latent_scales' = lms[2]
  /\ UNCHANGED <<config, lifecycle>>

\* one iteration of the slice loop of decompress
DecompressSlice ==
  /\ pc = "decompress" /\ slice_index < Len(y_strings)
  /\ LET e == DecompressStep(slice_index, y_strings, y_hat_slices,
                             latent_means, latent_scales, max_support_slices,
                             slice_size, params)
     IN /\ y_hat_slices' = Append(y_hat_slices, e.y_hat_slice)
        /\ trace' = Append(trace, e)
  /\ slice_index' = slice_index + 1
  /\ UNCHANGED <<config, lifecycle, pc, caller, x_shape, y_shape, z_shape,
                 y_slices, z_string, z_hat, latent_means, latent_scales,
                 y_strings, y_bits_arr, ret, comp>>

\* what decompress returns for the merged latent y_hat
DecompressResult(yh, p, ysh, xs) ==
  <<CropCast(SynthesisTransform(yh, p, ysh), xs), yh>>

\* merge the slices, synthesize, crop, cast; return (image, y_hat)
DecompressReturn ==
  /\ pc = "decompress" /\ slice_index = Len(y_strings)
  /\ ret' = Returned("decompress",
                     DecompressResult(y_hat_slices, params, y_shape, x_shape))
  /\ pc' = "returned"
  /\ UNCHANGED <<config, lifecycle, locals, comp>>

\* the caller drops the result of the finished operation; the locals of the
\* call are gone
Collect ==
  /\ pc = "returned"
  /\ pc' = "idle"
  /\ ret' = NoRet
  /\ comp' = <<>>
  /\ caller' = "none"
  /\ slice_index' = 0
  /\ x_shape' = <<0, 0>>
  /\ y_shape' = <<0, 0>>
  /\ z_shape' = <<0, 0>>
  /\ y_slices' = <<>>
  /\ z_string' = 0
  /\ z_hat' = 0
  /\ latent_means' = <<>>
  /\ latent_scales' = <<>>
  /\ y_strings' = <<>>
  /\ y_hat_slices' = <<>>
  /\ y_bits_arr' = <<>>
  /\ trace' = <<>>
  /\ UNCHANGED <<config, lifecycle>>

\* ------------------------------------------------------------ specification
\* argument tuples a caller may hand to decompress
DecompressArgs ==
  {CompressTuple(xs, AnalysisShape(xs), AnalysisShape(AnalysisShape(xs)),
                 zs, strs) :
     xs \in Shapes, zs \in 0..(ZAlphabet - 1),
     strs \in UNION {Strings(n) : n \in 0..MaxSlices}}

Next ==
  \/ Construct
  \/ FitBegin
  \/ FitEnd
  \/ FitAbort
  \/ \E who \in {"train_step", "test_step"}, xs \in Shapes,
        ys \in Latents(num_slices) : CallBegin(who, xs, ys)
  \/ CallSlice
  \/ CallReturn
  \/ \E xs \in Shapes, ys \in Latents(num_slices) : CompressBegin(xs, ys)
  \/ CompressSlice
  \/ CompressReturn
  \/ \E a \in DecompressArgs : pc = "idle" /\ DecompressBegin(a)
  \/ pc = "returned" /\ ret.kind = "compress" /\ DecompressBegin(ret.val)
  \/ DecompressSlice
  \/ DecompressReturn
  \/ Collect

Spec == Init /\ [][Next]_vars

\* --------------------------------------- specification of the scale mapping
\* the entropy model of the slices applies self.scale_fn to a scale index
ScaleFnCall(i) ==
  /\ status = "ready"
  /\ i \in 0..(num_scales - 1)
  /\ scale_table' = [j \in DOMAIN scale_table \cup {i} |->
                       IF j = i THEN ScaleFn(offset, factor, i)
                       ELSE scale_table[j]]
  /\ UNCHANGED <<latent_depth, num_slices, max_support_slices, lmbda,
                 slice_size, status, num_scales, scale_min, scale_max,
                 offset, factor, lifecycle, pc, locals, ret, comp>>

\* the scales a caller may pass: 1, 2, 4, ...
ScaleArgs == {Pow2(e) : e \in 0..MaxLogScale}

\* one slice configuration, every scale configuration
ScaleInit ==
  /\ latent_depth = 2
  /\ num_slices = 1
  /\ max_support_slices = 0
  /\ lmbda = LambdaArg
  /\ slice_size = 0
  /\ status = "unbuilt"
  /\ num_scales \in 1..MaxScales
  /\ scale_min \in ScaleArgs
  /\ scale_max \in ScaleArgs
  /\ offset = 0
  /\ factor = <<0, 1>>
  /\ scale_table = <<>>
  /\ params = 0
  /\ em_z = NoEM
  /\ em_y = NoEM
  /\ in_fit = FALSE
  /\ frozen = FALSE
  /\ pc = "idle"
  /\ caller = "none"
  /\ slice_index = 0
  /\ x_shape = <<0, 0>>
  /\ y_shape = <<0, 0>>
  /\ z_shape = <<0, 0>>
  /\ y_slices = <<>>
  /\ z_string = 0
  /\ z_hat = 0
  /\ latent_means = <<>>
  /\ latent_scales = <<>>
  /\ y_strings = <<>>
  /\ y_hat_slices = <<>>
  /\ y_bits_arr = <<>>
  /\ trace = <<>>
  /\ ret = NoRet
  /\ comp = <<>>

ScaleNext ==
  \/ Construct
  \/ \E i \in 0..(MaxScales - 1) : ScaleFnCall(i)

ScaleSpec == ScaleInit /\ [][ScaleNext]_vars

TypeOK ==
  /\ status \in {"unbuilt", "ready", "config_error", "build_error"}
  /\ pc \in {"idle", "call", "compress", "decompress", "returned"}
  /\ params \in 0..MaxTrainSteps
  /\ em_z \in {NoEM} \cup (0..MaxTrainSteps)
  /\ slice_index \in 0..MaxSlices

\* ------------------------------------------------------------------ claims
InLoop == pc \in {"call", "compress", "decompress"}

LoopDone == InLoop /\ Len(trace) = num_slices

\* values a decoded slice takes
DecodedValues == 0..3

\* the slice loops run as a whole, from slice i on, on the decoded slices yhs
RECURSIVE CallLoop(_, _, _, _, _, _, _, _)
CallLoop(i, ys, yhs, lm, ls, k, ssz, p) ==
  IF i >= Len(ys) THEN yhs
  ELSE CallLoop(i + 1, ys,
                Append(yhs, CallStep(i, ys, yhs, lm, ls, k, ssz, p).y_hat_slice),
                lm, ls, k, ssz, p)

RECURSIVE CompressLoop(_, _, _, _, _, _, _, _)
CompressLoop(i, ys, yhs, lm, ls, k, ssz, p) ==
  IF i >= Len(ys) THEN yhs
  ELSE CompressLoop(i + 1, ys,
                    Append(yhs, CompressStep(i, ys, yhs, lm, ls, k, ssz,
                                             p).y_hat_slice),
                    lm, ls, k, ssz, p)

RECURSIVE DecompressLoop(_, _, _, _, _, _, _, _)
DecompressLoop(i, strs, yhs, lm, ls, k, ssz, p) ==
  IF i >= Len(strs) THEN yhs
  ELSE DecompressLoop(i + 1, strs,
                      Append(yhs, DecompressStep(i, strs, yhs, lm, ls, k, ssz,
                                                 p).y_hat_slice),
                      lm, ls, k, ssz, p)

\* the decompress run was fed the tuple of the compress run `comp`, and the
\* model did not change in between
FedByCompress ==
  /\ pc = "decompress"
  /\ comp # <<>>
  /\ comp[1].params = params
  /\ comp[1].tables = em_z

\* C1: encoder/decoder agreement.  When decompress is fed the tuple compress
\* produced on the unchanged model, then for every slice decoded so far the
\* support, mu, sigma and y_hat_slice are those compress computed for that
\* slice, and z_hat is the same.
C1_EncoderDecoderAgreement ==
  FedByCompress =>
    /\ z_hat = comp[1].z_hat
    /\ \A j \in 1..Len(trace) :
         /\ trace[j].support = comp[1].trace[j].support
         /\ trace[j].mu = comp[1].trace[j].mu
         /\ trace[j].sigma = comp[1].trace[j].sigma
         /\ trace[j].y_hat_slice = comp[1].trace[j].y_hat_slice

\* C1 witness: a fed decompress run finished a loop of at least two slices,
\* the last one predicted from a non-empty support
C1_Witness ==
  /\ FedByCompress
  /\ Len(trace) = num_slices
  /\ num_slices >= 2
  /\ trace[num_slices].support # <<>>

\* the indices i-k .. i-1 clipped at 0: the most recent k slices before i
MostRecent(i, k) == [m \in 1..Min(k, i) |-> Max(0, i - k) + m - 1]

\* the indices 0 .. min(i, k)-1: the first k slices
FirstSlices(i, k) == [m \in 1..Min(k, i) |-> m - 1]

C3_Causality ==
  /\ InLoop =>
       \A j \in 1..Len(trace) : \A m \in 1..Len(trace[j].support) :
         trace[j].support[m] < trace[j].index /\ trace[j].index = j - 1
  /\ (LoopDone /\ pc = "decompress") =>
       \A j \in 1..num_slices : \A rest \in Strings(num_slices - j) :
         DecompressLoop(0, SubSeq(y_strings, 1, j) \o rest, <<>>,
                        latent_means, latent_scales, max_support_slices,
                        slice_size, params)[j]
           = y_hat_slices[j]
  /\ (LoopDone /\ pc = "compress") =>
       \A j \in 1..num_slices : \A rest \in Latents(num_slices - j) :
         CompressLoop(0, SubSeq(y_slices, 1, j) \o rest, <<>>,
                      latent_means, latent_scales, max_support_slices,
                      slice_size, params)[j]
           = y_hat_slices[j]
  /\ (LoopDone /\ pc = "call") =>
       \A j \in 1..num_slices : \A rest \in Latents(num_slices - j) :
         CallLoop(0, SubSeq(y_slices, 1, j) \o rest, <<>>,
                  latent_means, latent_scales, max_support_slices,
                  slice_size, params)[j]
           = y_hat_slices[j]

\* C3 witness: a decompress loop of three slices has finished and its last
\* slice was predicted from earlier slices
C3_Witness ==
  /\ LoopDone /\ pc = "decompress"
  /\ num_slices = 3
  /\ trace[3].support # <<>>

\* the prediction of the slice processed last is the same for every
\* alternative list of earlier decoded slices that agrees with the actual one
\* on the indices in `keep`
PredictionIgnoresOthers(keep) ==
  LET i == Len(trace) - 1
      e == trace[i + 1]
  IN \A alt \in [1..i -> DecodedValues] :
       (\A m \in 1..i : (m - 1) \in keep => alt[m] = y_hat_slices[m]) =>
         LET pr == Predict(i, latent_means, latent_scales, alt,
                           max_support_slices, slice_size, params)
         IN pr.mu = e.mu /\ pr.sigma = e.sigma

C5_LifecycleGuard ==
  ~frozen =>
    /\ pc \notin {"compress", "decompress"}
    /\ ret.kind \notin {"compress", "decompress"}
    /\ comp = <<>>
    /\ pc = "returned" => ret.kind \in Errors \cup {"call"}

\* C5 witness: compress or decompress was called during the first fit, after
\* a training step, and raised the missing-attribute error
C5_Witness ==
  /\ ~frozen
  /\ in_fit
  /\ params > 0
  /\ pc = "returned"
  /\ ret.kind = "AttributeError"

\* C6 as claimed: in every state after the freezing transition the frozen
\* tables are the ones built from the current prior parameters.
C6_TablesNeverStale == em_z # NoEM => em_z = params

\* C7: configuration check.  A (latent_depth, num_slices) pair that does not
\* divide evenly ends construction with the configuration error and nothing
\* has run; a constructed model has latent_depth = num_slices * slice_size.
C7_ConfigCheck ==
  status # "unbuilt" =>
    /\ (latent_depth % num_slices # 0) <=> (status = "config_error")
    /\ status = "config_error" =>
         pc = "idle" /\ ret = NoRet /\ trace = <<>> /\ em_z = NoEM
    /\ status = "ready" => latent_depth = num_slices * slice_size

\* C7 witness: construction with latent_depth = 4 and num_slices = 3 failed
C7_Witness ==
  /\ status = "config_error"
  /\ latent_depth = 4
  /\ num_slices = 3

\* C8: arity check.  decompress runs its loop and returns a reconstruction
\* only with exactly num_slices slice strings; with any other number it ends
\* with an error and has decoded nothing.
C8_ArityCheck ==
  /\ pc = "decompress" => Len(y_strings) = num_slices
  /\ (pc = "returned" /\ ret.kind = "decompress") =>
       Len(y_strings) = num_slices
  /\ (pc = "returned" /\ ret.kind = "ArityError") =>
       /\ Len(y_strings) # num_slices
       /\ trace = <<>>
       /\ y_hat_slices = <<>>
       /\ ret.val = <<>>

\* C8 witness: a frozen model rejected a decompress call with one string too
\* few
C8_Witness ==
  /\ frozen
  /\ pc = "returned"
  /\ ret.kind = "ArityError"
  /\ Len(y_strings) = num_slices - 1

\* C9: bitstream order.  compress returns (x_shape, y_shape, z_shape,
\* z_string, slice strings in slice order), 4 + num_slices entries, and
\* decompress reads the same positions: entry 4 as the hyperprior string and
\* entry 4 + j as the string of slice j - 1.
C9_BitstreamOrder ==
  /\ (pc = "returned" /\ ret.kind = "compress") =>
       /\ Len(ret.val) = 4 + num_slices
       /\ ret.val[1] = x_shape
       /\ ret.val[2] = y_shape
       /\ ret.val[3] = z_shape
       /\ ret.val[4] = z_string
       /\ \A j \in 1..num_slices :
            trace[j].index = j - 1 /\ ret.val[4 + j] = trace[j].string
  /\ (pc = "decompress" /\ comp # <<>>) =>
       /\ x_shape = comp[1].ret[1]
       /\ y_shape = comp[1].ret[2]
       /\ z_shape = comp[1].ret[3]
       /\ z_string = comp[1].ret[4]
       /\ \A j \in 1..Len(trace) :
            trace[j].index = j - 1 /\ trace[j].string = comp[1].ret[4 + j]

\* C9 witness: decompress consumed the three slice strings of a compress
\* tuple whose slice strings are not all the same
C9_Witness ==
  /\ pc = "decompress"
  /\ comp # <<>>
  /\ num_slices = 3
  /\ Len(trace) = 3
  /\ trace[1].string # trace[3].string

\* n is v (half units) rounded to the nearest integer, ties to even
RoundsTo(n, v) == 2 * n = v \/ ((2 * n - v) \in {-1, 1} /\ n % 2 = 0)

\* pix is the 8-bit saturated rounding of v
PixelOf(pix, v) ==
  /\ pix \in 0..UInt8Max
  /\ \E n \in ((v - 1) \div 2)..((v + 1) \div 2) :
       /\ RoundsTo(n, v)
       /\ \/ n < 0 /\ pix = 0
          \/ n > UInt8Max /\ pix = UInt8Max
          \/ n \in 0..UInt8Max /\ pix = n

\* img is the synthesis output of the decoded latent without the batch
\* dimension, cropped to x_shape, rounded and saturated to 0..255
IsReconstruction(img) ==
  LET xh == SynthesisTransform(y_hat_slices, params, y_shape)
  IN /\ Len(img) = x_shape[1]
     /\ \A r \in 1..Len(img) :
          /\ Len(img[r]) = x_shape[2]
          /\ \A c \in 1..Len(img[r]) : PixelOf(img[r][c], xh[r][c])

\* C10 as claimed: the value decompress returns is the reconstructed image.
C10_ReturnsImage ==
  (pc = "returned" /\ ret.kind = "decompress") =>
    /\ Len(ret.val) = 1
    /\ IsReconstruction(ret.val[1])

\* C10 amended: decompress returns the pair (reconstructed image, y_hat):
\* the first component is the synthesis output without the batch dimension,
\* cropped to x_shape[0] rows and x_shape[1] columns, rounded and saturated
\* into 0..255; the second is the merged decoded latent.
C10_ReturnsImageAndLatent ==
  (pc = "returned" /\ ret.kind = "decompress") =>
    /\ Len(ret.val) = 2
    /\ IsReconstruction(ret.val[1])
    /\ ret.val[2] = y_hat_slices

\* C10 witness: decompress returned a 1 x 2 image, cropped from the 2 x 2
\* synthesis output, with a saturated pixel
C10_Witness ==
  /\ pc = "returned"
  /\ ret.kind = "decompress"
  /\ x_shape = <<1, 2>>
  /\ y_shape = <<1, 1>>
  /\ ret.val[1][1][2] = UInt8Max
  /\ ret.val[1][1][1] < UInt8Max

\* sum of the rate estimates of the trace entries with slice index i
BitsOfSlice(i) ==
  SumSeq([j \in 1..Len(trace) |->
            IF trace[j].index = i THEN trace[j].bits ELSE 0])

\* number of trace entries with slice index i
TimesCounted(i) == Cardinality({j \in 1..Len(trace) : trace[j].index = i})

\* the parameters the finished forward pass ran with: train_step has applied
\* one update since
ParamsOfCall == IF caller = "train_step" THEN params - 1 ELSE params

\* C11: the forward pass returns (loss, bpp, mse) where bpp is the hyperprior
\* bits plus the bits of every one of the num_slices slices, each slice
\* counted exactly once, over the pixel count, and
\* loss = mse + lambda * (hyperprior bits + bits of every slice).
C11_RateDistortionLoss ==
  (pc = "returned" /\ ret.kind = "call") =>
    LET z_bits == EmZBits(HyperAnalysis(y_slices, ParamsOfCall), ParamsOfCall)
        slice_bits == SumSeq([i \in 1..num_slices |-> BitsOfSlice(i - 1)])
        loss == ret.val[1]
        bpp == ret.val[2]
        mse == ret.val[3]
    IN /\ Len(ret.val) = 3
       /\ \A i \in 0..(num_slices - 1) : TimesCounted(i) = 1
       /\ Len(trace) = num_slices
       /\ bpp = <<z_bits + slice_bits, x_shape[1] * x_shape[2]>>
       /\ loss = mse + lmbda * (z_bits + slice_bits)

\* C11 witness: a forward pass over three slices with different rate
\* estimates returned, for an image of more than one pixel
C11_Witness ==
  /\ pc = "returned" /\ ret.kind = "call"
  /\ num_slices = 3
  /\ trace[1].bits # trace[2].bits
  /\ trace[2].bits # trace[3].bits
  /\ ret.val[2][2] > 1

\* order and equality of scale_fn values; nan compares with nothing
ScaleLess(a, b) ==
  /\ a.kind # "nan" /\ b.kind # "nan"
  /\ a.kind # "inf" /\ b.kind # "zero"
  /\ (a.kind = "finite" /\ b.kind = "finite") =>
       a.q[1] * b.q[2] < b.q[1] * a.q[2]

\* the scale_fn value a is the scale s
ScaleIs(a, s) == a.kind = "finite" /\ a.q[1] = Log2(s) * a.q[2]

\* scale_fn is strictly increasing on the indices evaluated so far, starts
\* at scale_min and ends at scale_max
ScaleTableMonotone ==
  /\ \A i, j \in DOMAIN scale_table :
       i < j => ScaleLess(scale_table[i], scale_table[j])
  /\ 0 \in DOMAIN scale_table => ScaleIs(scale_table[0], scale_min)
  /\ (num_scales - 1) \in DOMAIN scale_table =>
       ScaleIs(scale_table[num_scales - 1], scale_max)

\* C12 as claimed: for every configuration the constructor accepts, scale_fn
\* is strictly increasing in the index over 0..num_scales-1 with
\* scale_fn(0) = scale_min and scale_fn(num_scales-1) = scale_max.
C12_ScaleFnMonotone == status = "ready" => ScaleTableMonotone

\* C12 amended: for every configuration with scale_min < scale_max and
\* num_scales >= 2, scale_fn is strictly increasing in the index over
\* 0..num_scales-1 with scale_fn(0) = scale_min and
\* scale_fn(num_scales-1) = scale_max.
C12_ScaleFnMonotoneOrdered ==
  (status = "ready" /\ scale_min < scale_max /\ num_scales >= 2) =>
    ScaleTableMonotone

\* C12 witness: scale_fn was applied to the three indices of a table
\* between 1 and 8, and the middle value lies strictly between integer
\* powers of two
C12_Witness ==
  /\ status = "ready"
  /\ num_scales = 3 /\ scale_min = 1 /\ scale_max = 8
  /\ DOMAIN scale_table = {0, 1, 2}
  /\ scale_table[1].q = <<3, 2>>

\* seq is the channel sub-range [i * slice_size, (i + 1) * slice_size) of
\* the context ctx, with all of its slice_size channels
AlignedSlice(seq, ctx, i) ==
  /\ Len(seq) = slice_size
  /\ Len(ctx) >= (i + 1) * slice_size
  /\ \A c \in 1..slice_size : seq[c] = ctx[i * slice_size + c]

\* C13 as claimed: for every slice index i, latent_means_slice and
\* latent_scales_slice are the channel sub-range
\* [i * slice_size, (i + 1) * slice_size) of the mean context and of the
\* scale context, each with exactly slice_size channels, never empty or
\* truncated.
C13_HyperContextAligned ==
  InLoop =>
    \A j \in 1..Len(trace) :
      /\ AlignedSlice(trace[j].latent_means_slice, latent_means, j - 1)
      /\ AlignedSlice(trace[j].latent_scales_slice, latent_scales, j - 1)

\* C14: unbounded support.  When max_support_slices is negative, the support
\* gathered for slice i is all previously decoded slices y_hat_slices[0:i]
\* in index order, and the predictors receive these i slices.
C14_UnboundedSupport ==
  (InLoop /\ max_support_slices < 0) =>
    \A j \in 1..Len(trace) :
      /\ trace[j].index = j - 1
      /\ trace[j].support = Range(j - 1)
      /\ trace[j].mean_channels = Len(trace[j].latent_means_slice) + j - 1
      /\ trace[j].scale_channels = Len(trace[j].latent_scales_slice) + j - 1

\* C14 witness: with max_support_slices = -1 the last of three slices was
\* predicted from slices 0 and 1
C14_Witness ==
  /\ InLoop
  /\ max_support_slices = -1
  /\ Len(trace) = 3
  /\ trace[3].support = <<0, 1>>

\* C15: with max_support_slices = 0 the support of every slice is empty in
\* call, compress and decompress: the predictors of slice i receive the
\* hyperprior context slice of slice i and no decoded slice, so mu and sigma
\* do not depend on the decoded slices, and the loop still visits the
\* slices in the order 0..N-1.
C15_EmptySupport ==
  (InLoop /\ max_support_slices = 0) =>
    /\ \A j \in 1..Len(trace) :
         /\ trace[j].index = j - 1
         /\ trace[j].support = <<>>
         /\ trace[j].mean_channels = Len(trace[j].latent_means_slice)
         /\ trace[j].scale_channels = Len(trace[j].latent_scales_slice)
    /\ trace # <<>> => PredictionIgnoresOthers({})

\* C15 witness: with max_support_slices = 0 a loop over three slices has
\* finished, and a slice decoded before the last one is not zero
C15_Witness ==
  /\ LoopDone
  /\ max_support_slices = 0
  /\ num_slices = 3
  /\ y_hat_slices[1] # 0
  /\ trace[3].support = <<>>

\* the decoded value of the trace entry e follows from its own mu and sigma
DecodedFrom(e, p) ==
  IF p = "call" THEN e.y_hat_slice = EmYQuantize(y_slices[e.index + 1], e.mu)
  ELSE e.y_hat_slice = EmYDecompress(e.string, e.sigma, e.mu)

\* in every state of a loop: slices 0..slice_index-1 are decoded, in order
LoopInOrder ==
  InLoop =>
    /\ slice_index <= num_slices
    /\ Len(trace) = slice_index
    /\ Len(y_hat_slices) = slice_index
    /\ \A j \in 1..slice_index :
         /\ trace[j].index = j - 1
         /\ y_hat_slices[j] = trace[j].y_hat_slice
         /\ DecodedFrom(trace[j], pc)

\* a loop starts without decoded slices
LoopStart ==
  (InLoop' /\ pc' # pc) => slice_index' = 0 /\ y_hat_slices' = <<>>

\* an iteration processes slice slice_index: mu and sigma are predicted from
\* the slices decoded before it, then exactly its decoded value is appended
LoopIteration ==
  (InLoop /\ pc' = pc /\ y_hat_slices' # y_hat_slices) =>
    LET e == trace'[Len(trace')]
        pr == Predict(slice_index, latent_means, latent_scales, y_hat_slices,
                      max_support_slices, slice_size, params)
    IN /\ slice_index < num_slices
       /\ slice_index' = slice_index + 1
       /\ e.index = slice_index
       /\ e.mu = pr.mu /\ e.sigma = pr.sigma
       /\ y_hat_slices' = Append(y_hat_slices, e.y_hat_slice)

\* a loop is left with all N slices decoded, and y_hat is their
\* concatenation in index order
LoopEnd ==
  (InLoop /\ pc' # pc) =>
    /\ slice_index = num_slices
    /\ Len(y_hat_slices) = num_slices
    /\ y_hat_slices' = y_hat_slices
    /\ pc = "decompress" => ret'.val[2] = y_hat_slices
    /\ pc = "call" => ret'.val[3] = Distortion(y_slices, y_hat_slices)

\* C16: strictly sequential slice loop.  In call, compress and decompress
\* the slices are processed in the order 0, 1, ..., N-1 without skip or
\* repeat; when slice i starts y_hat_slices holds exactly the decoded slices
\* 0..i-1 in order; the decoded value of slice i is appended after its mu and
\* sigma are computed; and the loop is left with exactly N slices, which
\* form y_hat in index order.
C16_SequentialLoop ==
  /\ []LoopInOrder
  /\ [][LoopStart /\ LoopIteration /\ LoopEnd]_vars

\* C16 witness: a compress loop over three slices has finished with decoded
\* slices that are not all the same
C16_Witness ==
  /\ LoopDone /\ pc = "compress"
  /\ num_slices = 3
  /\ slice_index = 3
  /\ y_hat_slices[1] # y_hat_slices[3]

\* what a loop iteration selects: the predictor pair (by slice index), the
\* support indices, the hyper context channels and the channel counts of
\* the two predictor inputs
Structure(e) ==
  <<e.index, e.support, Len(e.latent_means_slice),
    Len(e.latent_scales_slice), e.mean_channels, e.scale_channels>>

\* the structure the three paths select for slice i after the decoded
\* slices yhs, on the hyper context of the current state
StructureOfCall(i, yhs) ==
  Structure(CallStep(i, [m \in 1..num_slices |-> 0], yhs, latent_means,
                     latent_scales, max_support_slices, slice_size, params))

StructureOfCompress(i, yhs) ==
  Structure(CompressStep(i, [m \in 1..num_slices |-> 0], yhs, latent_means,
                         latent_scales, max_support_slices, slice_size,
                         params))

StructureOfDecompress(i, yhs) ==
  Structure(DecompressStep(i, [m \in 1..num_slices |-> 0], yhs, latent_means,
                           latent_scales, max_support_slices, slice_size,
                           params))

\* C17: train/inference structural agreement.  For every slice index i the
\* forward pass, compress and decompress select the same predictor pair, the
\* same support indices and the same hyper context channels, so the
\* predictors of slice i receive the same number of input channels on all
\* three paths; a decompress run selects what the compress run that
\* produced its strings selected.
C17_StructuralAgreement ==
  /\ InLoop =>
       \A j \in 1..Len(trace) :
         LET yhs == SubSeq(y_hat_slices, 1, j - 1)
         IN /\ Structure(trace[j]) = StructureOfCall(j - 1, yhs)
            /\ Structure(trace[j]) = StructureOfCompress(j - 1, yhs)
            /\ Structure(trace[j]) = StructureOfDecompress(j - 1, yhs)
  /\ (pc = "decompress" /\ comp # <<>>) =>
       \A j \in 1..Len(trace) :
         Structure(trace[j]) = Structure(comp[1].trace[j])

\* C17 witness: a forward pass processed the last of three slices of a model
\* with a support bound, with a support and with hyper context channels
C17_Witness ==
  /\ pc = "call"
  /\ Len(trace) = 3
  /\ max_support_slices = 1
  /\ trace[3].support # <<>>
  /\ trace[2].latent_means_slice # <<>>

\* a step that creates, replaces or modifies self.em_z or self.em_y is the
\* end of a fit, after training has returned, and sets both
OnlyFitSets ==
  (em_z' # em_z \/ em_y' # em_y) =>
    /\ in_fit /\ ~in_fit'
    /\ pc \notin {"call", "compress", "decompress"}
    /\ em_z' # NoEM /\ em_y' # NoEM

\* a step of the forward pass leaves self.em_z and self.em_y alone
CallFrame ==
  (pc = "call" \/ pc' = "call") => (em_z' = em_z /\ em_y' = em_y)

====
